---------------------------- MODULE Spec2Model ----------------------------
(***************************************************************************)
(* Collision detection of micosmogames/aframe: the "collider" system (the  *)
(* registry of colliders per layer and the per-tick collision tracker) and *)
(* the "collider" component (the per-entity behaviour that registers with  *)
(* the system), together with the parts of the host runtime and of the     *)
(* entity pool that drive the component's lifecycle.                       *)
(*                                                                         *)
(* A JavaScript Set or Map iterates in insertion order, so every Set and   *)
(* Map of the source is a sequence without repetitions.  An entity carries *)
(* one collider, and is named like it.                                     *)
(***************************************************************************)
EXTENDS Integers, Sequences, FiniteSets, TLC

Colliders == {"A", "B"}
LayerTags == {"L1", "L2"}
Shapes == {"sphere", "box", "cone"}       \* "cone" has no narrow-phase test
Policies == {"init", "play", "pool"}
NoTarget == "none"                        \* eventTarget: null selector
Target == "T"                             \* a distinct event-target element
NoEl == "-"
NoLayer == "-"
NoNode == "null"
Rig == "rig"                              \* a scene node above entity A
Nodes == Colliders \cup {Rig}
Toggled == {Rig, "B"}                     \* the nodes the scene shows and hides
MapIds == {"m1", "m2", "m3"}              \* the three Map objects of init()

NoError == "none"
InvalidShape == "Error: Invalid shape(s)"
TypeError == "TypeError"

\* Bound of the exploration: the changes made to the scene between ticks.
MaxChanges == 2
\* Bounds of the exploration of the states component: the depth of the call
\* stack and the number of operations waiting for their threadlet.
MaxStack == 2
MaxThreadlets == 1
\* Bounds of the exploration of the pool component: the largest size, maxSize
\* and threshold given to it, the entities it creates in all, and the times
\* its properties are set.
MaxPoolSize == 2
MaxEntities == 3
MaxUpdates == 2
\* Bounds of the exploration of the sound component: the largest poolSize and
\* maxPoolSize given to it, the value nPlaying is let reach, and the replays
\* of one instance that may be waiting at a time.
MaxSounds == 2
MaxPlaying == 3
MaxWaiting == 1

VARIABLES
  comp,            \* per collider: "none" (not created), "live", "removed" (el.components[attrName] deleted)
  data,            \* per collider: the component's data (schema properties)
  activated,       \* per collider: this.activated
  elPlaying,       \* per entity: el.isPlaying
  visible,         \* per scene node: object3D.visible
  pos,             \* per entity: world position <<x, y, z>>
  scale,           \* per entity: world scale <<x, y, z>>
  pool,            \* per entity: "none" (not pooled), "avail", "used"
  colliders,       \* system.colliders: the flat Set, in insertion order
  layers,          \* system.layers: Map layer -> Set, in insertion order
  maps,            \* contents of the three Map objects: sequences of edges <<c1, c2>>
  collisions,      \* system.collisions: which Map object it refers to
  prevCollisions,  \* system.prevCollisions
  newCollisions,   \* system.newCollisions
  events,          \* the events emitted by the last tick, in order
  err,             \* the error the last handler raised, or NoError
  lastOp,          \* the kind of the last step: "init", "create", "tick", "change"
  nChanges,        \* between-tick changes made so far
  last,            \* history: the facts of the last tick (TickFacts)
  prev,            \* history: the facts of the tick before it
  added,           \* history of the direct registry calls: the <<collider, layer>>
                   \* added and not since removed
  statesComp,      \* the "states" component: list, currentState, callStack, and the
                   \* events and error of its last operation
  threadlets,      \* the operations handed to Threadlet.DefaultPriority.run, in order
  asked,           \* history: the states operation run last, and the currentState
                   \* and call stack it found
  mipool,          \* the "mipool" component: data, state, and the number of entities
                   \* in availableEls, usedEls, deletedEls and still loading
  requested,       \* history: what the last requestEntity or returnEntity found
  misound          \* the "misound" component: data, the pool of audio instances,
                   \* its flags, nPlaying, and what its last call emitted and threw

vars == <<comp, data, activated, elPlaying, visible, pos, scale, pool, colliders,
          layers, maps, collisions, prevCollisions, newCollisions, events, err,
          lastOp, nChanges, last, prev, added, statesComp, threadlets, asked,
          mipool, requested, misound>>

world == <<elPlaying, visible, pos, scale, pool>>
registry == <<colliders, layers>>
graphs == <<maps, collisions, prevCollisions, newCollisions>>
history == <<last, prev, added>>
pooling == <<mipool, requested, misound>>
\* the components besides the collider
elsewhere == <<statesComp, threadlets, asked, mipool, requested, misound>>

-----------------------------------------------------------------------------
(* Insertion-ordered Sets. *)

Range(s) == {s[i] : i \in 1..Len(s)}
SetAdd(s, x) == IF x \in Range(s) THEN s ELSE Append(s, x)
SetDelete(s, x) == SelectSeq(s, LAMBDA y : y # x)

Max(a, b) == IF a >= b THEN a ELSE b
Min(a, b) == IF a <= b THEN a ELSE b

-----------------------------------------------------------------------------
(* The component's schema defaults (with a collidesWith list, which has no *)
(* default), and the configurations components are created with.           *)

DefaultData ==
  [collideNonVisible |-> FALSE, enabled |-> TRUE, shape |-> "sphere",
   layer |-> "L1", collidesWith |-> <<"L1">>, eventTarget |-> NoTarget,
   ignoreDuplicates |-> FALSE, policy |-> "init",
   radius |-> 1, width |-> 1, height |-> 1, depth |-> 1]

Profiles ==
  { DefaultData,
    [DefaultData EXCEPT !.ignoreDuplicates = TRUE, !.collidesWith = <<"L1", "L2">>],
    [DefaultData EXCEPT !.collideNonVisible = TRUE],
    [DefaultData EXCEPT !.eventTarget = Target],
    [DefaultData EXCEPT !.policy = "play"],
    [DefaultData EXCEPT !.policy = "pool"],
    [DefaultData EXCEPT !.shape = "cone"],
    [DefaultData EXCEPT !.layer = "L2", !.collidesWith = <<>>] }


-----------------------------------------------------------------------------
(* Scene-graph queries of the host runtime, and the shape tests.           *)

Parent(n) == IF n = "A" THEN Rig ELSE NoNode

\* Faulty variant of isVisibleInScene: looks at the node alone, not above it.
IsVisibleInScene_OwnOnly(n) == n = NoNode \/ visible[n]

\* lib/utils.js isVisibleInScene: the node and every ancestor is visible.
RECURSIVE IsVisibleInScene(_)
IsVisibleInScene(n) ==
  IF n = NoNode THEN TRUE
  ELSE IF ~visible[n] THEN FALSE
  ELSE IsVisibleInScene(Parent(n))

Sq(x) == x * x
DistSq(p, q) == Sq(p[1] - q[1]) + Sq(p[2] - q[2]) + Sq(p[3] - q[3])

\* getScaledRadius: the largest scale axis times the radius.
GetScaledRadius(c) ==
  Max(scale[c][1], Max(scale[c][2], scale[c][3])) * data[c].radius

\* getScaledDimensions: width, height, depth times the scale, per axis.
GetScaledDimensions(c) ==
  <<data[c].width * scale[c][1], data[c].height * scale[c][2],
    data[c].depth * scale[c][3]>>

\* THREE.Box3.setFromCenterAndSize, in doubled coordinates (no halves).
BoxMin2(c) == [i \in 1..3 |-> 2 * pos[c][i] - GetScaledDimensions(c)[i]]
BoxMax2(c) == [i \in 1..3 |-> 2 * pos[c][i] + GetScaledDimensions(c)[i]]

\* Faulty variant of the sphere/sphere test: touching spheres do not overlap.
collision_sphere_sphere_Strict(s1, s2) ==
  LET combinedRadius == GetScaledRadius(s1) + GetScaledRadius(s2)
  IN  combinedRadius >= 0 /\ DistSq(pos[s1], pos[s2]) < Sq(combinedRadius)

\* distance <= combinedRadius: a distance is not negative, and non-negative
\* numbers compare like their squares.
collision_sphere_sphere(s1, s2) ==
  LET combinedRadius == GetScaledRadius(s1) + GetScaledRadius(s2)
  IN  combinedRadius >= 0 /\ DistSq(pos[s1], pos[s2]) <= Sq(combinedRadius)

\* THREE.Box3.intersectsSphere: the box point closest to the centre is within
\* the radius (doubled coordinates).
collision_sphere_box(sphere, box) ==
  LET centre2 == [i \in 1..3 |-> 2 * pos[sphere][i]]
      clamped == [i \in 1..3 |->
                    Max(BoxMin2(box)[i], Min(BoxMax2(box)[i], centre2[i]))]
  IN  DistSq(clamped, centre2) <= Sq(2 * GetScaledRadius(sphere))

\* Faulty variant of the box/sphere entry: the arguments are not swapped.
collision_box_sphere_NoSwap(c1, c2) == collision_sphere_box(c1, c2)

collision_box_sphere(c1, c2) == collision_sphere_box(c2, c1)

\* THREE.Box3.intersectsBox: no axis separates the boxes.
collision_box_box(box1, box2) ==
  \A i \in 1..3 : ~(BoxMax2(box2)[i] < BoxMin2(box1)[i]
                    \/ BoxMin2(box2)[i] > BoxMax2(box1)[i])

\* this[`collision_${shape1}_${shape2}`] is defined.
HasShapeTest(shape1, shape2) ==
  shape1 \in {"sphere", "box"} /\ shape2 \in {"sphere", "box"}

ShapeTest(c1, c2) ==
  CASE data[c1].shape = "sphere" /\ data[c2].shape = "sphere" -> collision_sphere_sphere(c1, c2)
    [] data[c1].shape = "sphere" /\ data[c2].shape = "box"    -> collision_sphere_box(c1, c2)
    [] data[c1].shape = "box"    /\ data[c2].shape = "sphere" -> collision_box_sphere(c1, c2)
    [] data[c1].shape = "box"    /\ data[c2].shape = "box"    -> collision_box_box(c1, c2)
    [] OTHER -> FALSE

-----------------------------------------------------------------------------
(* The collider registry.  A registry value is a record of the flat Set,   *)
(* the layer Map and the error raised so far; a statement after a throw is *)
(* not executed.                                                           *)

Reg(cs, ls, e) == [colliders |-> cs, layers |-> ls, err |-> e]

Bucket(ls, layer) == IF layer \in DOMAIN ls THEN ls[layer] ELSE <<>>

addCollider(r, c, layer) ==
  IF r.err # NoError THEN r
  ELSE Reg(SetAdd(r.colliders, c),
           [l \in DOMAIN r.layers \cup {layer} |->
              IF l = layer THEN SetAdd(Bucket(r.layers, l), c) ELSE r.layers[l]],
           NoError)

\* this.layers.get(layer) is undefined for a layer without a bucket: .delete throws.
removeCollider(r, c, layer) ==
  IF r.err # NoError THEN r
  ELSE IF layer \notin DOMAIN r.layers THEN Reg(r.colliders, r.layers, TypeError)
  ELSE Reg(SetDelete(r.colliders, c),
           [r.layers EXCEPT ![layer] = SetDelete(@, c)],
           NoError)

-----------------------------------------------------------------------------
(* The collider component's handlers.  Each takes the registry r and the   *)
(* component's data d and activated flag a, and yields [reg, activated].   *)

Out(r, a) == [reg |-> r, activated |-> a]

update(c, r, d, a, oldLayer) ==
  IF d.layer # oldLayer /\ (a \/ d.policy = "init")
  THEN Out(addCollider(IF oldLayer # NoLayer THEN removeCollider(r, c, oldLayer) ELSE r,
                       c, d.layer), a)
  ELSE Out(r, a)

remove(c, r, d, a) == Out(removeCollider(r, c, d.layer), a)

OnActivate(c, r, d, a, policy) ==
  IF d.policy # policy THEN Out(r, a)
  ELSE LET r2 == addCollider(r, c, d.layer)
       IN  Out(r2, IF r2.err = NoError THEN TRUE ELSE a)

OnDeactivate(c, r, d, a, policy) ==
  IF d.policy # policy THEN Out(r, a)
  ELSE LET r2 == removeCollider(r, c, d.layer)
       IN  Out(r2, IF r2.err = NoError THEN FALSE ELSE a)

pool_remove(c, r, d, a) == OnActivate(c, r, d, a, "pool")
pool_return(c, r, d, a) == OnDeactivate(c, r, d, a, "pool")
play(c, r, d, a) == OnActivate(c, r, d, a, "play")

\* Faulty variant of pause: the collider stays registered.
pause_KeepsRegistered(c, r, d, a) == Out(r, a)

pause(c, r, d, a) == OnDeactivate(c, r, d, a, "play")

-----------------------------------------------------------------------------
(* The collision tracker.  A collision Map is the sequence of its edges    *)
(* <<c1, c2>> in iteration order: keys in the order they were first set,   *)
(* each key's Set in insertion order.                                      *)

RECURSIVE Concat(_)
Concat(ss) == IF ss = <<>> THEN <<>> ELSE Head(ss) \o Concat(Tail(ss))

\* Map.get(c1).add(c2): after the last edge of c1 when c1 is a key already.
MapSetAdd(list, c1, c2) ==
  IF <<c1, c2>> \in Range(list) THEN list
  ELSE IF \E i \in 1..Len(list) : list[i][1] = c1
  THEN LET at == CHOOSE i \in 1..Len(list) :
                   /\ list[i][1] = c1
                   /\ \A j \in (i + 1)..Len(list) : list[j][1] # c1
       IN  SubSeq(list, 1, at) \o <<<<c1, c2>>>> \o SubSeq(list, at + 1, Len(list))
  ELSE Append(list, <<c1, c2>>)

\* Faulty variant of the lookup: no edge is ever found.
hasCollided_Never(collider, other, list) == FALSE

hasCollided(collider, other, list) == <<collider, other>> \in Range(list)

\* The list parameter is not used by the source: the edge always goes to
\* this.collisions (cur).
addCollision(m, cur, c1, c2, list) ==
  IF data[c1].ignoreDuplicates /\ hasCollided(c2, c1, m[cur]) THEN m
  ELSE [m EXCEPT ![cur] = MapSetAdd(@, c1, c2)]

\* Faulty variant of the first early return: the enabled flag is not read.
Inactive_IgnoresEnabled(c) == comp[c] # "live"

\* The early returns of addAnyCollisions.
Inactive(c) == comp[c] # "live" \/ ~data[c].enabled

\* Faulty variant of the early returns: only the visibility of c1's own entity
\* is tested.
Skipped_OwnVisibilityOnly(c1, c2) ==
  \/ Inactive(c1) \/ Inactive(c2)
  \/ ~elPlaying[c1] \/ ~elPlaying[c2]
  \/ (~data[c1].collideNonVisible /\ ~IsVisibleInScene(c1))

Skipped(c1, c2) ==
  \/ Inactive(c1) \/ Inactive(c2)
  \/ ~elPlaying[c1] \/ ~elPlaying[c2]
  \/ (~data[c1].collideNonVisible /\ (~IsVisibleInScene(c2) \/ ~IsVisibleInScene(c1)))

Built(m, e) == [maps |-> m, err |-> e]

\* Faulty variant of addAnyCollisions: the shape test is looked up before the
\* early returns.
addAnyCollisions_ShapeFirst(m, cur, c1, c2) ==
  IF ~HasShapeTest(data[c1].shape, data[c2].shape) THEN Built(m, InvalidShape)
  ELSE IF Skipped(c1, c2) THEN Built(m, NoError)
  ELSE IF ShapeTest(c1, c2) THEN Built(addCollision(m, cur, c1, c2, cur), NoError)
  ELSE Built(m, NoError)

addAnyCollisions(m, cur, c1, c2) ==
  IF Skipped(c1, c2) THEN Built(m, NoError)
  ELSE IF ~HasShapeTest(data[c1].shape, data[c2].shape) THEN Built(m, InvalidShape)
  ELSE IF ShapeTest(c1, c2) THEN Built(addCollision(m, cur, c1, c2, cur), NoError)
  ELSE Built(m, NoError)

\* Faulty variant of the loops of tick: c1 !== c2 is not tested.
PairsOf_WithSelf(c1) ==
  Concat([i \in 1..Len(data[c1].collidesWith) |->
            LET layer == data[c1].collidesWith[i]
            IN  IF layer \notin DOMAIN layers THEN <<>>
                ELSE [j \in 1..Len(layers[layer]) |-> <<c1, layers[layer][j]>>]])

\* The pairs the three nested loops of tick visit, in order.
PairsOf(c1) ==
  Concat([i \in 1..Len(data[c1].collidesWith) |->
            LET layer == data[c1].collidesWith[i]
            IN  IF layer \notin DOMAIN layers THEN <<>>
                ELSE LET others == SelectSeq(layers[layer], LAMBDA c2 : c2 # c1)
                     IN  [j \in 1..Len(others) |-> <<c1, others[j]>>]])

Candidates == Concat([i \in 1..Len(colliders) |-> PairsOf(colliders[i])])

RECURSIVE Collect(_, _, _)
Collect(pairs, m, cur) ==
  IF pairs = <<>> THEN Built(m, NoError)
  ELSE LET r == addAnyCollisions(m, cur, Head(pairs)[1], Head(pairs)[2])
       IN  IF r.err # NoError THEN r ELSE Collect(Tail(pairs), r.maps, cur)

\* emitEvent: el.components[c1.attrName] (and, with a target, that of c2) is
\* dereferenced; it is undefined for a removed component.
Event(name, on, bubbles, el1, el2, layer1, layer2) ==
  [name |-> name, on |-> on, bubbles |-> bubbles, el1 |-> el1, el2 |-> el2,
   layer1 |-> layer1, layer2 |-> layer2]

Emitted(e, ev) == [err |-> e, ev |-> ev]

emitEvent(name, c1, c2) ==
  IF comp[c1] # "live" THEN Emitted(TypeError, <<>>)
  ELSE IF data[c1].eventTarget = NoTarget
  THEN Emitted(NoError, <<Event(name, c1, TRUE, NoEl, c2, NoLayer, NoLayer)>>)
  ELSE IF comp[c2] # "live" THEN Emitted(TypeError, <<>>)
  ELSE Emitted(NoError, <<Event(name, data[c1].eventTarget, FALSE, c1, c2,
                                data[c1].layer, data[c2].layer)>>)

Pass(m, evs, e) == [maps |-> m, events |-> evs, err |-> e]

\* "Get newly intersected entities": the edges of collisions not in prevCollisions.
RECURSIVE StartPass(_, _, _, _, _, _)
StartPass(edges, m, cur, prv, new, evs) ==
  IF edges = <<>> THEN Pass(m, evs, NoError)
  ELSE LET c1 == Head(edges)[1]
           c2 == Head(edges)[2]
       IN  IF hasCollided(c1, c2, m[prv]) THEN StartPass(Tail(edges), m, cur, prv, new, evs)
           ELSE LET m2 == addCollision(m, cur, c1, c2, new)
                    ev == emitEvent("collisionstart", c1, c2)
                IN  IF ev.err # NoError THEN Pass(m2, evs, ev.err)
                    ELSE StartPass(Tail(edges), m2, cur, prv, new, evs \o ev.ev)

\* "Find collision which have cleared": the edges of prevCollisions not in collisions.
RECURSIVE EndPass(_, _, _, _, _)
EndPass(edges, m, cur, prv, evs) ==
  IF edges = <<>> THEN Pass(m, evs, NoError)
  ELSE LET c1 == Head(edges)[1]
           c2 == Head(edges)[2]
       IN  IF hasCollided(c1, c2, m[cur]) THEN EndPass(Tail(edges), m, cur, prv, evs)
           ELSE LET ev == emitEvent("collisionend", c1, c2)
                IN  IF ev.err # NoError THEN Pass(m, evs, ev.err)
                    ELSE EndPass(Tail(edges), m, cur, prv, evs \o ev.ev)

\* Faulty variant of the tick: the buffer that becomes the current graph is not
\* cleared first.
TickResult_KeepsStale ==
  LET cur == prevCollisions
      prv == collisions
      m0 == maps
      built == Collect(Candidates, m0, cur)
      m1 == [built.maps EXCEPT ![newCollisions] = <<>>]
      started == IF built.err # NoError THEN Pass(built.maps, <<>>, built.err)
                 ELSE StartPass(m1[cur], m1, cur, prv, newCollisions, <<>>)
  IN  IF started.err # NoError THEN started
      ELSE EndPass(started.maps[prv], started.maps, cur, prv, started.events)

\* tick: swap the buffers, build the graph, then the two diff passes.  cur and
\* prv are this.collisions and this.prevCollisions after the swap.
TickResult ==
  LET cur == prevCollisions
      prv == collisions
      m0 == [maps EXCEPT ![prevCollisions] = <<>>]
      built == Collect(Candidates, m0, cur)
      m1 == [built.maps EXCEPT ![newCollisions] = <<>>]
      started == IF built.err # NoError THEN Pass(built.maps, <<>>, built.err)
                 ELSE StartPass(m1[cur], m1, cur, prv, newCollisions, <<>>)
  IN  IF started.err # NoError THEN started
      ELSE EndPass(started.maps[prv], started.maps, cur, prv, started.events)

\* History: the ordered pairs the tick visits that are eligible (not skipped),
\* have a shape test and overlap in the world as it stands.
Visited(c1, c2) ==
  /\ c1 # c2
  /\ c1 \in Range(colliders)
  /\ \E i \in 1..Len(data[c1].collidesWith) :
       /\ data[c1].collidesWith[i] \in DOMAIN layers
       /\ c2 \in Range(layers[data[c1].collidesWith[i]])

Overlapping(c1, c2) ==
  /\ Visited(c1, c2)
  /\ ~Skipped(c1, c2)
  /\ HasShapeTest(data[c1].shape, data[c2].shape)
  /\ ShapeTest(c1, c2)

\* An entity is hidden when it or a node above it is not visible.
Hidden(c) == \E n \in {c, Parent(c), Parent(Parent(c))} \ {NoNode} : ~visible[n]

\* The edge an emitted event is about.
EventEdge(e) == IF e.bubbles THEN <<e.on, e.el2>> ELSE <<e.el1, e.el2>>

EdgesEmitted(evs, name) ==
  {EventEdge(evs[i]) : i \in {j \in 1..Len(evs) : evs[j].name = name}}

\* ok: the tick ran to completion; eff: the pairs that overlapped; hidden: the
\* entities that were hidden; open: the edges whose collisionstart has been
\* emitted and whose collisionend has not; clean: this tick and every tick
\* before it ran to completion.
TickFacts ==
  [ok |-> TickResult.err = NoError,
   clean |-> last.clean /\ TickResult.err = NoError,
   eff |-> {p \in Colliders \X Colliders : Overlapping(p[1], p[2])},
   hidden |-> {c \in Colliders : Hidden(c)},
   open |-> (last.open \cup EdgesEmitted(TickResult.events, "collisionstart"))
              \ EdgesEmitted(TickResult.events, "collisionend")]

NoTick == [ok |-> TRUE, clean |-> TRUE, eff |-> {}, hidden |-> {}, open |-> {}]

\* The scene is built first: every entity has its collider.
Created == \A c \in Colliders : comp[c] # "none"

Tick ==
  /\ Created
  /\ maps' = TickResult.maps
  /\ collisions' = prevCollisions
  /\ prevCollisions' = collisions
  /\ events' = TickResult.events
  /\ err' = TickResult.err
  /\ lastOp' = "tick"
  /\ prev' = last
  /\ last' = TickFacts
  /\ added' = added
  /\ UNCHANGED <<comp, data, activated, world, registry, newCollisions, nChanges,
                 elsewhere>>

-----------------------------------------------------------------------------
(* The "states" component (states.js).  A states value is the record of    *)
(* data.list, intState.currentState, callStack, and the events emitted and *)
(* the error thrown by the operation in progress.  A context argument is   *)
(* absent, or carries name/value pairs without an action, or carries an    *)
(* action of the caller's.                                                 *)

StateNames == {"s1", "s2", "s3"}
NoState == "undefined"
NoStateName == "<nos>"
NoCtxt == "undefined"
Ctxts == {NoCtxt, "values", "action"}
UserAction == "go"
StateUndefined == "Error: State is not defined"
StackEmpty == "Error: Call stack is empty"
StatesEl == "statesEl"

StatesOf(list) ==
  [list |-> list, currentState |-> NoState, callStack |-> <<>>, events |-> <<>>,
   err |-> NoError]

createContextObject(ctxt, state, defAction) ==
  [state |-> IF state = NoState THEN NoStateName ELSE state,
   action |-> IF ctxt = "action" THEN UserAction ELSE defAction]

\* seen: intState.currentState at the time el.emit runs the handlers.
StateEvent(states, seen, from, to, op) ==
  [name |-> "statechanged", on |-> StatesEl, bubbles |-> FALSE, op |-> op,
   from |-> from, to |-> to, seen |-> seen]

\* Faulty variant of emitStateChange: the event is emitted before currentState
\* is set.
emitStateChange_EmitsFirst(states, fromState, toState, fromCtxt, toCtxt, op) ==
  IF toState \notin Range(states.list) THEN [states EXCEPT !.err = StateUndefined]
  ELSE [states EXCEPT
          !.currentState = toState,
          !.events = Append(@, StateEvent(states, states.currentState,
                                          createContextObject(fromCtxt, fromState, "exit"),
                                          createContextObject(toCtxt, toState, "enter"), op))]

emitStateChange(states, fromState, toState, fromCtxt, toCtxt, op) ==
  IF toState \notin Range(states.list) THEN [states EXCEPT !.err = StateUndefined]
  ELSE [states EXCEPT
          !.currentState = toState,
          !.events = Append(@, StateEvent(states, toState,
                                          createContextObject(fromCtxt, fromState, "exit"),
                                          createContextObject(toCtxt, toState, "enter"), op))]

callAndEmit(states, state, fromCtxt, toCtxt) ==
  LET curState == states.currentState
  IN  emitStateChange([states EXCEPT !.callStack = Append(@, curState)],
                      curState, state, fromCtxt, toCtxt, "call")

\* Faulty variant of returnAndEmit: the top of the call stack is read and not
\* popped.
returnAndEmit_KeepsTop(states, state, fromCtxt, toCtxt) ==
  IF Len(states.callStack) = 0 THEN [states EXCEPT !.err = StackEmpty]
  ELSE LET oldState == states.callStack[Len(states.callStack)]
       IN  emitStateChange(states, states.currentState,
                           IF state # NoState THEN state ELSE oldState,
                           fromCtxt, toCtxt, "return")

returnAndEmit(states, state, fromCtxt, toCtxt) ==
  IF Len(states.callStack) = 0 THEN [states EXCEPT !.err = StackEmpty]
  ELSE LET oldState == states.callStack[Len(states.callStack)]
           popped == [states EXCEPT !.callStack = SubSeq(@, 1, Len(@) - 1)]
       IN  emitStateChange(popped, popped.currentState,
                           IF state # NoState THEN state ELSE oldState,
                           fromCtxt, toCtxt, "return")

\* The body of the operation op, sync or run by a threadlet.
Operate(states, op, state, fromCtxt, toCtxt) ==
  CASE op = "chain" -> emitStateChange(states, states.currentState, state,
                                       fromCtxt, toCtxt, "chain")
    [] op = "call" -> callAndEmit(states, state, fromCtxt, toCtxt)
    [] op = "return" -> returnAndEmit(states, state, fromCtxt, toCtxt)

\* History of the operation being run: its arguments, the currentState and call
\* stack it finds, whether it and every operation before it succeeded (sound),
\* and while that is so the calls less the returns made so far (net).
Asked(states, op, state, fromCtxt, toCtxt) ==
  LET sound == /\ asked.sound
               /\ Operate([states EXCEPT !.err = NoError], op, state, fromCtxt, toCtxt).err = NoError
  IN  [op |-> op, state |-> state, fromCtxt |-> fromCtxt, toCtxt |-> toCtxt,
       before |-> states.currentState, stack |-> states.callStack,
       sound |-> sound,
       net |-> IF ~sound THEN 0
               ELSE asked.net + (CASE op = "call" -> 1 [] op = "return" -> -1 [] OTHER -> 0)]

NotAsked ==
  [op |-> "none", state |-> NoState, fromCtxt |-> NoCtxt, toCtxt |-> NoCtxt,
   before |-> NoState, stack |-> <<>>, sound |-> TRUE, net |-> 0]

-----------------------------------------------------------------------------
(* The mipool component.  The entities it creates are numbered in the      *)
(* order of their creation.                                                 *)

\* A number that is undefined: a property that was never set.
Undefined == -1
NoMixin == "undefined"
Mixins == {"m1", "m2"}
PoolSizes == 0..MaxPoolSize
PoolMaxSizes == 1..MaxPoolSize
Thresholds == 0..MaxPoolSize
PoolPolicies == {"warn", "error", "dynamic", "ignore"}
PoolEmpty == "Error: Pool is empty. Cannot expand"

\* The values setAttribute can give the component.
PoolData == [mixin : Mixins, size : PoolSizes, maxSize : PoolMaxSizes,
             threshold : Thresholds, poolPolicy : PoolPolicies]
\* oldData of the first update: {}.
NoData == [mixin |-> NoMixin, size |-> Undefined, maxSize |-> Undefined,
           threshold |-> Undefined, poolPolicy |-> "undefined"]

\* JavaScript's reading of a number as a condition, and its > on numbers that
\* may be undefined (any comparison with undefined is false).
Truthy(n) == n # Undefined /\ n # 0
Greater(a, b) == a # Undefined /\ b # Undefined /\ a > b
CeilHalf(n) == (n + 1) \div 2

\* data.threshhold: the schema has no property of that name.
threshhold(d) == Undefined

\* The entities createEntity makes, and an entity that was never pooled.
PoolEls == 1..MaxEntities
Stranger == 0

\* Array.indexOf, 0 when absent, and removeIndex.
IndexOf(els, el) ==
  IF el \in Range(els) THEN CHOOSE i \in 1..Len(els) :
                              /\ els[i] = el
                              /\ \A j \in 1..(i - 1) : els[j] # el
  ELSE 0
removeIndex(els, i) == SubSeq(els, 1, i - 1) \o SubSeq(els, i + 1, Len(els))
Reverse(els) == [i \in 1..Len(els) |-> els[Len(els) + 1 - i]]

PoolEvent(name, el) == [name |-> name, on |-> el, bubbles |-> FALSE]

\* init().  loading: the entities created whose 'loaded' listener has not run;
\* created, updates, pools: the entities created, the update() calls and the
\* initPool() calls so far; events, result, err: what the last call emitted,
\* returned and threw.
PoolInit ==
  [data |-> NoData,
   state |-> [threshold |-> 0, maxSize |-> 0, size |-> Undefined],
   availableEls |-> <<>>, usedEls |-> <<>>, deletedEls |-> <<>>, loading |-> {},
   created |-> 0, updates |-> 0, pools |-> 0, dynamicInfo |-> FALSE,
   events |-> <<>>, result |-> Undefined, err |-> NoError]

\* The start of a call: nothing emitted, returned or thrown yet.
Entering(p) == [p EXCEPT !.events = <<>>, !.result = Undefined, !.err = NoError]

\* initPool()
initPool(p) ==
  [p EXCEPT !.deletedEls = @ \o Reverse(p.usedEls), !.usedEls = <<>>,
            !.availableEls = <<>>, !.state.size = 0, !.pools = @ + 1]

\* createEntity() called n times: the entities join availableEls when loaded.
createEntities(p, n) ==
  [p EXCEPT !.loading = @ \cup ((p.created + 1)..(p.created + n)),
            !.created = @ + n]

\* The 'loaded' listener of createEntity.
listener(p, el) ==
  [Entering(p) EXCEPT !.loading = @ \ {el}, !.availableEls = Append(@, el),
                      !.state.size = @ + 1, !.events = <<PoolEvent("pool-add", el)>>]

\* The default threshold taken when none is in force: half the size.
DefaultThreshold(p, d) ==
  IF p.state.threshold = 0 /\ p.state.threshold < CeilHalf(d.size)
  THEN [p EXCEPT !.state.threshold = CeilHalf(d.size)]
  ELSE p

\* update(oldData), its five steps in order.
UpdateMixin(p, old, d) == IF old.mixin # d.mixin THEN initPool(p) ELSE p
UpdateSize(p, old, d) ==
  IF old.size # d.size
  THEN createEntities([p EXCEPT !.state.maxSize = Max(d.size, @)],
                      Max(d.size - p.state.size, 0))
  ELSE p
UpdateThreshold(p, old, d) ==
  IF old.threshold # d.threshold /\ Greater(d.threshold, p.state.threshold)
  THEN [p EXCEPT !.state.threshold = threshhold(d)]
  ELSE p
UpdateMaxSize(p, old, d) ==
  IF old.maxSize # d.maxSize
  THEN DefaultThreshold([p EXCEPT !.state.maxSize = Max(d.maxSize, d.size)], d)
  ELSE p
UpdatePolicy(p, old, d) ==
  IF old.poolPolicy # d.poolPolicy /\ d.poolPolicy = "dynamic"
  THEN DefaultThreshold(p, d)
  ELSE p
mipoolUpdate(p, d) ==
  LET old == p.data
      q == [Entering(p) EXCEPT !.data = d, !.updates = @ + 1]
  IN  UpdatePolicy(UpdateMaxSize(UpdateThreshold(UpdateSize(UpdateMixin(q, old, d),
                                                            old, d), old, d), old, d), old, d)

\* requestEntity(): whether it expands the pool first.
Expands(p) ==
  /\ Truthy(p.state.threshold)
  /\ Len(p.availableEls) <= p.state.threshold
  /\ (p.state.size < p.state.maxSize \/ p.data.poolPolicy = "dynamic")
Expanded(p) ==
  IF Expands(p)
  THEN createEntities([p EXCEPT !.dynamicInfo =
                         \/ @
                         \/ /\ p.state.size >= p.state.maxSize
                            /\ p.state.size < p.state.maxSize * 2], 1)
  ELSE p
requestEntity(p) ==
  LET q == Expanded(Entering(p))
  IN  IF Len(q.availableEls) = 0
      THEN IF q.data.poolPolicy \in {"ignore", "warn"}
           THEN q
           ELSE [q EXCEPT !.err = PoolEmpty]
      ELSE LET el == Head(q.availableEls)
           IN  [q EXCEPT !.availableEls = Tail(@), !.usedEls = Append(@, el),
                         !.events = <<PoolEvent("pool-remove", el)>>,
                         !.result = el]

\* Faulty variant of returnEntity: the entity goes back to availableEls whether
\* or not it is in use.
returnEntity_Unchecked(p, el) ==
  LET q == Entering(p)
  IN  [q EXCEPT !.usedEls = IF IndexOf(@, el) = 0 THEN @
                            ELSE removeIndex(@, IndexOf(@, el)),
                !.availableEls = Append(@, el),
                !.events = <<PoolEvent("pool-return", el)>>,
                !.result = el]

\* returnEntity(el)
returnEntity(p, el) ==
  LET q == Entering(p)
  IN  IF IndexOf(q.usedEls, el) = 0
      THEN IF IndexOf(q.deletedEls, el) = 0 THEN q
           ELSE [q EXCEPT !.deletedEls = removeIndex(@, IndexOf(q.deletedEls, el))]
      ELSE [q EXCEPT !.usedEls = removeIndex(@, IndexOf(q.usedEls, el)),
                     !.availableEls = Append(@, el),
                     !.events = <<PoolEvent("pool-return", el)>>,
                     !.result = el]

\* History: what a requestEntity or returnEntity(el) call found.
Requested(p, el) ==
  [threshold |-> p.data.threshold, maxSize |-> p.data.maxSize,
   stateMaxSize |-> p.state.maxSize, size |-> p.state.size,
   availableEls |-> Len(p.availableEls), created |-> p.created,
   available |-> p.availableEls, used |-> p.usedEls, el |-> el]
NotRequested == Requested(PoolInit, Undefined)

-----------------------------------------------------------------------------
(* The misound component.  An audio instance of the pool is the record of  *)
(* the fields the component reads: isPlaying, isPaused, whether it has a   *)
(* source (it has one once it has been played) and a buffer, the count of  *)
(* its _repeat (0 when it has none), and the replays a waiter of the       *)
(* ticker has yet to start.                                                *)

SoundPolicies == {"warn", "error", "discard", "ignore"}
\* data.repeat: none, or a count with an interval to wait.
RepeatCount == 2
Repeats == {0, RepeatCount}
SoundData == [poolSize : 1..MaxSounds, maxPoolSize : 1..MaxSounds,
              poolPolicy : SoundPolicies, repeat : Repeats, autoplay : BOOLEAN]
NoSoundData == [poolSize |-> 0, maxPoolSize |-> 0, poolPolicy |-> "undefined",
                repeat |-> 0, autoplay |-> FALSE]
TooManySounds == "Error: Maximum sound instances exceeded"

SoundEvent(name, reason) == [name |-> name, reason |-> reason, bubbles |-> FALSE]

\* new THREE.Audio(listener)
NewAudio == [isPlaying |-> FALSE, isPaused |-> FALSE, source |-> FALSE,
             buffer |-> FALSE, repeat |-> 0, waiting |-> 0]

\* THREE.Audio play(), stop() and pause().
AudioPlay(a) == IF a.isPlaying THEN a ELSE [a EXCEPT !.isPlaying = TRUE, !.source = TRUE]
AudioStop(a) == [a EXCEPT !.isPlaying = FALSE]
AudioPause(a) == [a EXCEPT !.isPlaying = FALSE]

\* init().  plain: nothing but playSound calls, loads, ends and replays so far.
SoundInit ==
  [data |-> NoSoundData, pool |-> <<>>, loaded |-> FALSE, loading |-> FALSE,
   mustPlay |-> FALSE, isPlaying |-> FALSE, isPaused |-> FALSE, nPlaying |-> 0,
   repeat |-> 0, plain |-> TRUE, before |-> 0, events |-> <<>>, err |-> NoError]

\* The start of a call: nothing emitted or thrown yet; before: nPlaying as the
\* call finds it.
Calling(m) == [m EXCEPT !.events = <<>>, !.err = NoError, !.before = m.nPlaying]

\* The first instance the loop of stopSound returns at: one without a source.
FirstUnplayed(children) ==
  IF \E i \in 1..Len(children) : ~children[i].source
  THEN CHOOSE i \in 1..Len(children) :
         /\ ~children[i].source
         /\ \A j \in 1..(i - 1) : children[j].source
  ELSE Len(children) + 1

\* stopSound()
stopSound(m) ==
  LET k == FirstUnplayed(m.pool)
      stopped == [m EXCEPT !.isPlaying = FALSE, !.isPaused = FALSE,
                           !.pool = [i \in 1..Len(m.pool) |->
                                       IF i < k THEN [AudioStop(m.pool[i]) EXCEPT !.repeat = 0]
                                       ELSE m.pool[i]]]
  IN  IF k <= Len(m.pool) THEN stopped
      ELSE IF m.nPlaying > 0
      THEN [stopped EXCEPT !.events = Append(@, SoundEvent("sound-ended", "stop")),
                           !.nPlaying = 0]
      ELSE stopped

\* pauseSound()
pauseSound(m) ==
  IF ~m.isPlaying \/ m.isPaused THEN m
  ELSE [m EXCEPT !.isPlaying = FALSE, !.isPaused = TRUE,
                 !.pool = [i \in 1..Len(m.pool) |->
                             IF ~m.pool[i].source \/ ~m.pool[i].isPlaying \/ m.pool[i].isPaused
                             THEN m.pool[i]
                             ELSE [AudioPause(m.pool[i]) EXCEPT !.isPaused = TRUE]]]

\* resumeSound()
resumeSound(m) ==
  IF m.isPlaying \/ ~m.isPaused THEN m
  ELSE [m EXCEPT !.isPlaying = TRUE, !.isPaused = FALSE,
                 !.pool = [i \in 1..Len(m.pool) |->
                             IF m.pool[i].isPaused
                             THEN [AudioPlay(m.pool[i]) EXCEPT !.isPaused = FALSE]
                             ELSE m.pool[i]]]

\* playSound(), first part: a paused component is stopped; a pool whose
\* instances are all counted as playing is extended, or the call throws, or
\* instance 0 is discarded (findLongestRunningAudio compares the one clock of
\* the listener's context with itself), or the call returns.  done: the call
\* has returned or thrown.
MakeRoom(m) ==
  IF m.isPaused THEN [m |-> stopSound(m), done |-> FALSE]
  ELSE IF m.nPlaying < Len(m.pool) THEN [m |-> m, done |-> FALSE]
  ELSE IF m.nPlaying < m.data.maxPoolSize
  THEN [m |-> [m EXCEPT !.pool = Append(@, NewAudio)], done |-> FALSE]
  ELSE CASE m.data.poolPolicy = "error" ->
              [m |-> [m EXCEPT !.err = TooManySounds], done |-> TRUE]
         [] m.data.poolPolicy = "discard" ->
              IF m.pool[1].source
              THEN [m |-> [m EXCEPT !.pool[1] = AudioStop(@), !.nPlaying = @ - 1],
                    done |-> FALSE]
              ELSE [m |-> [m EXCEPT !.err = TypeError], done |-> TRUE]
         [] m.data.poolPolicy = "ignore" -> [m |-> m, done |-> TRUE]
         [] OTHER -> [m |-> m, done |-> FALSE]

\* The instance the loop of playSound plays: the first that is not playing
\* and has a buffer; 0 when there is none.
Free(children) ==
  IF \E i \in 1..Len(children) : ~children[i].isPlaying /\ children[i].buffer
  THEN CHOOSE i \in 1..Len(children) :
         /\ ~children[i].isPlaying /\ children[i].buffer
         /\ \A j \in 1..(i - 1) : children[j].isPlaying \/ ~children[j].buffer
  ELSE 0

\* playSound()
playSound(m) ==
  LET room == MakeRoom(m)
      r == room.m
      i == Free(r.pool)
  IN  IF room.done THEN r
      ELSE IF ~r.loaded THEN [r EXCEPT !.mustPlay = TRUE]
      ELSE IF i = 0 THEN [r EXCEPT !.isPlaying = TRUE]
      ELSE [r EXCEPT !.isPlaying = TRUE,
                     !.pool[i] = [AudioPlay(@) EXCEPT
                                    !.repeat = IF r.repeat # 0 THEN r.repeat ELSE @,
                                    !.isPaused = FALSE],
                     !.mustPlay = FALSE,
                     !.nPlaying = @ + 1]

\* repeatSound(misound, audio) for instance i: whether the sound is to be
\* played again, and the pool after it.
repeatSound(m, i) ==
  IF m.pool[i].repeat = 0 THEN [again |-> FALSE, m |-> m]
  ELSE IF m.pool[i].repeat - 1 > 0
  THEN [again |-> TRUE,
        m |-> [m EXCEPT !.pool[i].repeat = @ - 1, !.pool[i].waiting = @ + 1]]
  ELSE [again |-> FALSE, m |-> [m EXCEPT !.pool[i].repeat = 0]]

\* The onEnded callback fOnEnded gives instance i.
fOnEnded(m, i) ==
  LET rep == repeatSound([m EXCEPT !.pool[i] = AudioStop(@)], i)
  IN  IF rep.again THEN rep.m
      ELSE IF rep.m.nPlaying - 1 <= 0
      THEN [rep.m EXCEPT !.events = Append(@, SoundEvent("sound-ended", "end")),
                         !.nPlaying = 0, !.isPlaying = FALSE]
      ELSE [rep.m EXCEPT !.nPlaying = @ - 1]

\* update(oldData) of the initialisation, with a src: setupSound() and the
\* request to load the src.
soundUpdate(m, d) ==
  [m EXCEPT !.data = d,
            !.pool = [i \in 1..d.poolSize |-> NewAudio],
            !.nPlaying = 0,
            !.repeat = d.repeat,
            !.loaded = FALSE,
            !.loading = TRUE]

\* The callback of audioLoader.load.
soundLoaded(m) ==
  LET set == [m EXCEPT !.pool = [i \in 1..Len(m.pool) |-> [m.pool[i] EXCEPT !.buffer = TRUE]],
                       !.loaded = TRUE, !.loading = FALSE]
      played == IF set.data.autoplay \/ set.mustPlay THEN playSound(set) ELSE set
  IN  IF played.err # NoError THEN played
      ELSE [played EXCEPT !.events = Append(@, SoundEvent("sound-loaded", "none"))]

\* The components besides the collider, idle.
ElsewhereInit ==
  /\ statesComp = StatesOf(<<"s1", "s2">>)
  /\ threadlets = <<>>
  /\ asked = NotAsked
  /\ mipool = PoolInit
  /\ requested = NotRequested
  /\ misound = SoundInit

-----------------------------------------------------------------------------
(* The state after the system's init(), in a scene whose entities carry no *)
(* collider yet.  Entity A stands at the origin under the rig; entity B    *)
(* stands where two unit spheres just touch.                               *)

Origin == <<0, 0, 0>>
Touching == <<2, 0, 0>>
Apart == <<3, 0, 0>>
Places == {Touching, Apart}
UnitScale == <<1, 1, 1>>

Init ==
  /\ comp = [c \in Colliders |-> "none"]
  /\ data = [c \in Colliders |-> DefaultData]
  /\ activated = [c \in Colliders |-> FALSE]
  /\ elPlaying = [c \in Colliders |-> TRUE]
  /\ visible = [n \in Nodes |-> TRUE]
  /\ pos = [c \in Colliders |-> IF c = "A" THEN Origin ELSE Touching]
  /\ scale = [c \in Colliders |-> UnitScale]
  /\ pool = [c \in Colliders |-> "none"]
  /\ colliders = <<>>
  /\ layers = <<>>
  /\ maps = [m \in MapIds |-> <<>>]
  /\ collisions = "m1"
  /\ prevCollisions = "m2"
  /\ newCollisions = "m3"
  /\ events = <<>>
  /\ err = NoError
  /\ lastOp = "init"
  /\ nChanges = 0
  /\ last = NoTick
  /\ prev = NoTick
  /\ added = {}
  /\ ElsewhereInit

\* A handler's outcome on collider c becomes the next state.
Apply(c, out) ==
  /\ colliders' = out.reg.colliders
  /\ layers' = out.reg.layers
  /\ activated' = [activated EXCEPT ![c] = out.activated]
  /\ err' = out.reg.err

Now == Reg(colliders, layers, NoError)

Change ==
  /\ Created
  /\ nChanges < MaxChanges
  /\ nChanges' = nChanges + 1
  /\ lastOp' = "change"
  /\ UNCHANGED <<graphs, events, history, elsewhere>>

\* The host creates the component: init(), the first update({}) and, on a
\* playing entity, play().  An entity whose collider has policy 'pool' is a
\* pool's entity: mipool's createEntity hides and pauses it.
CreateComponent(c, cfg) ==
  /\ comp[c] = "none"
  /\ LET pooled == cfg.policy = "pool"
         u == update(c, Now, cfg, FALSE, NoLayer)
         p == IF pooled THEN u ELSE play(c, u.reg, cfg, u.activated)
     IN  /\ comp' = [comp EXCEPT ![c] = "live"]
         /\ data' = [data EXCEPT ![c] = cfg]
         /\ elPlaying' = [elPlaying EXCEPT ![c] = ~pooled]
         /\ visible' = [visible EXCEPT ![c] = ~pooled]
         /\ pool' = [pool EXCEPT ![c] = IF pooled THEN "avail" ELSE "none"]
         /\ Apply(c, p)
  /\ lastOp' = "create"
  /\ UNCHANGED <<pos, scale, graphs, events, nChanges, history, elsewhere>>

\* setAttribute of one property: the host sets data and calls update(oldData).
Changes(d) ==
  {[d EXCEPT !.enabled = ~d.enabled]}
    \cup {[d EXCEPT !.layer = l] : l \in LayerTags \ {d.layer}}
    \cup {[d EXCEPT !.policy = p] : p \in Policies \ {d.policy}}

UpdateData(c, d) ==
  /\ comp[c] = "live"
  /\ d \in Changes(data[c])
  /\ Change
  /\ data' = [data EXCEPT ![c] = d]
  /\ Apply(c, update(c, Now, d, activated[c], data[c].layer))
  /\ UNCHANGED <<comp, world>>

\* el.pause(): isPlaying goes false and every component's pause() runs.
HostPause(c) ==
  /\ elPlaying[c]
  /\ Change
  /\ elPlaying' = [elPlaying EXCEPT ![c] = FALSE]
  /\ Apply(c, IF comp[c] = "live" THEN pause(c, Now, data[c], activated[c])
              ELSE Out(Now, activated[c]))
  /\ UNCHANGED <<comp, data, visible, pos, scale, pool>>

\* el.play(); mipool's wrapPlay ignores it on an entity that is not in use.
HostPlay(c) ==
  /\ ~elPlaying[c]
  /\ pool[c] # "avail"
  /\ Change
  /\ elPlaying' = [elPlaying EXCEPT ![c] = TRUE]
  /\ Apply(c, IF comp[c] = "live" THEN play(c, Now, data[c], activated[c])
              ELSE Out(Now, activated[c]))
  /\ UNCHANGED <<comp, data, visible, pos, scale, pool>>

\* mipool requestEntity of this entity: 'pool-remove', then shown.
RequestEntity(c) ==
  /\ pool[c] = "avail"
  /\ Change
  /\ pool' = [pool EXCEPT ![c] = "used"]
  /\ visible' = [visible EXCEPT ![c] = TRUE]
  /\ Apply(c, IF comp[c] = "live" THEN pool_remove(c, Now, data[c], activated[c])
              ELSE Out(Now, activated[c]))
  /\ UNCHANGED <<comp, data, elPlaying, pos, scale>>

\* mipool returnEntity: hidden, 'pool-return', then el.pause().
ReturnEntity(c) ==
  /\ pool[c] = "used"
  /\ Change
  /\ pool' = [pool EXCEPT ![c] = "avail"]
  /\ visible' = [visible EXCEPT ![c] = FALSE]
  /\ LET r == IF comp[c] = "live" THEN pool_return(c, Now, data[c], activated[c])
              ELSE Out(Now, activated[c])
         paused == r.reg.err = NoError /\ elPlaying[c]
     IN  /\ elPlaying' = [elPlaying EXCEPT ![c] = IF r.reg.err = NoError THEN FALSE ELSE @]
         /\ Apply(c, IF paused /\ comp[c] = "live"
                     THEN pause(c, r.reg, data[c], r.activated) ELSE r)
  /\ UNCHANGED <<comp, data, pos, scale>>

\* removeAttribute: the host pauses a playing component, calls remove() and
\* deletes el.components[attrName]; a throw leaves the entry in place.
RemoveAttribute(c) ==
  /\ comp[c] = "live"
  /\ Change
  /\ LET p == IF elPlaying[c] THEN pause(c, Now, data[c], activated[c])
              ELSE Out(Now, activated[c])
         r == IF p.reg.err # NoError THEN p ELSE remove(c, p.reg, data[c], p.activated)
     IN  /\ comp' = [comp EXCEPT ![c] = IF r.reg.err = NoError THEN "removed" ELSE @]
         /\ Apply(c, r)
  /\ UNCHANGED <<data, world>>

\* The scene changes between ticks.
SetVisible(n) ==
  /\ n \in Toggled
  /\ Change
  /\ visible' = [visible EXCEPT ![n] = ~@]
  /\ err' = NoError
  /\ UNCHANGED <<comp, data, activated, elPlaying, pos, scale, pool, registry>>

Move(p) ==
  /\ p # pos["B"]
  /\ Change
  /\ pos' = [pos EXCEPT !["B"] = p]
  /\ err' = NoError
  /\ UNCHANGED <<comp, data, activated, elPlaying, visible, scale, pool, registry>>

Next ==
  \/ Tick
  \/ \E c \in Colliders, cfg \in Profiles : CreateComponent(c, cfg)
  \/ \E c \in Colliders : \E d \in Changes(data[c]) : UpdateData(c, d)
  \/ \E c \in Colliders : HostPause(c)
  \/ \E c \in Colliders : HostPlay(c)
  \/ \E c \in Colliders : RequestEntity(c)
  \/ \E c \in Colliders : ReturnEntity(c)
  \/ \E c \in Colliders : RemoveAttribute(c)
  \/ \E n \in Nodes : SetVisible(n)
  \/ \E p \in Places : Move(p)

Spec == Init /\ [][Next]_vars

-----------------------------------------------------------------------------
(* The registry on its own: a collaborator calls addCollider and           *)
(* removeCollider directly, with any collider and any layer.               *)

AddColliderCall(c, layer) ==
  /\ LET r == addCollider(Now, c, layer)
     IN  colliders' = r.colliders /\ layers' = r.layers /\ err' = r.err
  /\ added' = added \cup {<<c, layer>>}
  /\ lastOp' = "addCollider"
  /\ UNCHANGED <<comp, data, activated, world, graphs, events, nChanges, last, prev,
                 elsewhere>>

RemoveColliderCall(c, layer) ==
  /\ LET r == removeCollider(Now, c, layer)
     IN  colliders' = r.colliders /\ layers' = r.layers /\ err' = r.err
  /\ added' = added \ {<<c, layer>>}
  /\ lastOp' = "removeCollider"
  /\ UNCHANGED <<comp, data, activated, world, graphs, events, nChanges, last, prev,
                 elsewhere>>

NextRegistry ==
  \/ \E c \in Colliders, layer \in LayerTags : AddColliderCall(c, layer)
  \/ \E c \in Colliders, layer \in LayerTags : RemoveColliderCall(c, layer)

SpecRegistry == Init /\ [][NextRegistry]_vars

-----------------------------------------------------------------------------
(* The shape tests on their own: two registered colliders of policy 'init' *)
(* on the default layer, with shapes, sizes, scales and positions drawn    *)
(* from small sets, and the tick that applies the tests to them.           *)

Radii == {1, 2}
Widths == {1, 2}
Scales == {UnitScale, <<1, 2, 1>>, <<-1, 1, 1>>}   \* plain, stretched, mirrored
Spots == {Touching, Apart, <<1, 1, 0>>, <<2, 2, 1>>, <<0, 3, 0>>, <<2, 1, 2>>}
Solids ==
  {[DefaultData EXCEPT !.shape = sh, !.radius = r, !.width = w] :
     sh \in {"sphere", "box"}, r \in Radii, w \in Widths}

InitShapes ==
  /\ comp = [c \in Colliders |-> "live"]
  /\ data \in [Colliders -> Solids]
  /\ activated = [c \in Colliders |-> FALSE]
  /\ elPlaying = [c \in Colliders |-> TRUE]
  /\ visible = [n \in Nodes |-> TRUE]
  /\ \E p \in Spots : pos = [c \in Colliders |-> IF c = "A" THEN Origin ELSE p]
  /\ \E sc \in Scales : scale = [c \in Colliders |-> IF c = "A" THEN sc ELSE UnitScale]
  /\ pool = [c \in Colliders |-> "none"]
  /\ colliders = <<"A", "B">>
  /\ layers = [l \in {"L1"} |-> <<"A", "B">>]
  /\ maps = [m \in MapIds |-> <<>>]
  /\ collisions = "m1"
  /\ prevCollisions = "m2"
  /\ newCollisions = "m3"
  /\ events = <<>>
  /\ err = NoError
  /\ lastOp = "create"
  /\ nChanges = 0
  /\ last = NoTick
  /\ prev = NoTick
  /\ added = {}
  /\ ElsewhereInit

NextShapes == Tick

SpecShapes == InitShapes /\ [][NextShapes]_vars

-----------------------------------------------------------------------------
(* The component's lifecycle on its own, with no tick and no property      *)
(* update: lifecycle events in sequences of any length (the count of       *)
(* changes starts again at will).                                          *)

Renew ==
  /\ nChanges > 0
  /\ nChanges' = 0
  /\ UNCHANGED <<comp, data, activated, world, registry, graphs, events, err,
                 lastOp, history, elsewhere>>

Lifecycle ==
  \/ \E c \in Colliders : HostPause(c)
  \/ \E c \in Colliders : HostPlay(c)
  \/ \E c \in Colliders : RequestEntity(c)
  \/ \E c \in Colliders : ReturnEntity(c)
  \/ \E c \in Colliders : RemoveAttribute(c)

NextLifecycle ==
  \/ \E c \in Colliders, cfg \in Profiles : CreateComponent(c, cfg)
  \/ Lifecycle
  \/ Renew

SpecLifecycle == Init /\ [][NextLifecycle]_vars

-----------------------------------------------------------------------------
(* What the last tick emitted, per ordered pair: an event of edge (c1, c2) *)
(* is addressed by c1 and names c2.                                        *)

EventsOf(name, c1, c2) ==
  {i \in 1..Len(events) : events[i].name = name /\ EventEdge(events[i]) = <<c1, c2>>}

Started(c1, c2) == EventsOf("collisionstart", c1, c2) # {}
Ended(c1, c2) == EventsOf("collisionend", c1, c2) # {}

Pairs == {p \in Colliders \X Colliders : p[1] # p[2]}

\* Both the last tick and the one before it ran to completion.
TwoTicksRan == lastOp = "tick" /\ last.ok /\ prev.ok

-----------------------------------------------------------------------------
\* C1: a collisionstart is emitted for a pair exactly once, on the first tick
\* in which it overlaps after not overlapping, and never again while it keeps
\* overlapping.  Stated per ordered pair (the event of edge (c1, c2)); a pair
\* that newly overlaps gets the start of at least one of its two edges.
C1_StartOnceOnFirstOverlap ==
  TwoTicksRan =>
    \A p \in Pairs :
      LET c1 == p[1]
          c2 == p[2]
      IN  /\ Cardinality(EventsOf("collisionstart", c1, c2)) <= 1
          /\ Started(c1, c2) => <<c1, c2>> \in last.eff
          /\ (<<c1, c2>> \in last.eff /\ <<c1, c2>> \in prev.eff) => ~Started(c1, c2)
          /\ (<<c1, c2>> \in last.eff /\ <<c1, c2>> \notin prev.eff /\ <<c2, c1>> \notin prev.eff)
               => (Started(c1, c2) \/ Started(c2, c1))

\* C2: a collisionend is emitted for a pair recorded as overlapping exactly
\* once, on the first tick in which it no longer overlaps: never while it
\* still overlaps, and never when it did not overlap on the previous tick.
C2_EndOnceOnFirstClear ==
  TwoTicksRan =>
    \A p \in Pairs :
      LET c1 == p[1]
          c2 == p[2]
      IN  /\ Cardinality(EventsOf("collisionend", c1, c2)) <= 1
          /\ Ended(c1, c2) => <<c1, c2>> \notin last.eff
          /\ Ended(c1, c2) => <<c1, c2>> \in prev.eff
          /\ (hasCollided(c1, c2, maps[prevCollisions])
                /\ <<c1, c2>> \notin last.eff /\ <<c2, c1>> \notin last.eff)
               => Ended(c1, c2)

\* C3: with ignoreDuplicates on collider a, once (b, a) is recorded in the
\* graph being built no (a, b) edge is recorded, and the relationship gets one
\* collisionstart and one collisionend over the lifetime of the overlap: while
\* the pair keeps overlapping after a tick that recorded (b, a) alone, no
\* further collisionstart and no collisionend is emitted for either edge.
C3_OneStartEndPerRelationship ==
  \A p \in Pairs :
    LET a == p[1]
        b == p[2]
        cur == maps[collisions]
        old == maps[prevCollisions]
        First(e) == CHOOSE i \in 1..Len(cur) : cur[i] = e
    IN  data[a].ignoreDuplicates =>
          /\ (lastOp = "tick" /\ hasCollided(a, b, cur) /\ hasCollided(b, a, cur))
               => First(<<a, b>>) < First(<<b, a>>)
          /\ (TwoTicksRan /\ hasCollided(b, a, old) /\ ~hasCollided(a, b, old)
                /\ (<<a, b>> \in last.eff \/ <<b, a>> \in last.eff))
               => (~Started(a, b) /\ ~Started(b, a) /\ ~Ended(a, b) /\ ~Ended(b, a))

-----------------------------------------------------------------------------
Names(e, c) == c \in {EventEdge(e)[1], EventEdge(e)[2]}
Idle(c) == ~data[c].enabled \/ ~elPlaying[c]
InEdge(c, list) == \E i \in 1..Len(list) : c \in {list[i][1], list[i][2]}

\* C4 as stated: a collider that is disabled, or whose entity is not playing,
\* is named by no event (collisionstart or collisionend, as first or second
\* participant) of a tick during which it is in that condition.
C4_IdleColliderNoEvents ==
  lastOp = "tick" =>
    \A c \in Colliders : Idle(c) => \A i \in 1..Len(events) : ~Names(events[i], c)

\* C4 as amended: such a collider is in no edge of the graph the tick builds,
\* and the only events that name it are the collisionend events that close
\* the edges recorded on the previous tick.
C4_IdleColliderOnlyClosingEnds ==
  lastOp = "tick" =>
    \A c \in Colliders : Idle(c) =>
      /\ ~InEdge(c, maps[collisions])
      /\ \A i \in 1..Len(events) : Names(events[i], c) =>
           /\ events[i].name = "collisionend"
           /\ EventEdge(events[i]) \in Range(maps[prevCollisions])

C4_Witness ==
  /\ lastOp = "tick"
  /\ \E c \in Colliders : Idle(c) /\ \E i \in 1..Len(events) : Names(events[i], c)

NeedsVisible(c) == ~data[c].collideNonVisible

\* C5 as stated: a collider that requires visibility produces no event on a
\* tick during which its entity or an ancestor is hidden, and on the tick after
\* visibility is restored while it overlaps a partner a collisionstart is
\* emitted for the pair.
C5_HiddenNoEventsThenResume ==
  lastOp = "tick" =>
    \A p \in Pairs :
      LET c == p[1]
          c2 == p[2]
      IN  NeedsVisible(c) =>
            /\ Hidden(c) => \A i \in 1..Len(events) : EventEdge(events[i])[1] # c
            /\ (TwoTicksRan /\ c \in prev.hidden /\ p \in last.eff)
                 => (Started(c, c2) \/ Started(c2, c))

\* C5 as amended: while hidden, such a collider records no edge of its own, and
\* the only events emitted for it are the collisionend events that close its
\* edges of the previous tick; on the tick after visibility is restored while
\* it overlaps a partner, a collisionstart is emitted for its edge, unless it
\* suppresses duplicates and the reverse edge is recorded.
C5_HiddenOnlyClosingEndsThenResume ==
  lastOp = "tick" =>
    \A p \in Pairs :
      LET c == p[1]
          c2 == p[2]
      IN  NeedsVisible(c) =>
            /\ Hidden(c) =>
                 /\ ~hasCollided(c, c2, maps[collisions])
                 /\ \A i \in 1..Len(events) : EventEdge(events[i])[1] = c =>
                      /\ events[i].name = "collisionend"
                      /\ EventEdge(events[i]) \in Range(maps[prevCollisions])
            /\ (last.ok /\ c \in prev.hidden /\ p \in last.eff)
                 => \/ Started(c, c2)
                    \/ (data[c].ignoreDuplicates /\ hasCollided(c2, c, maps[collisions]))

C5_Witness ==
  /\ lastOp = "tick"
  /\ \E p \in Pairs :
       /\ NeedsVisible(p[1])
       /\ p[1] \in prev.hidden
       /\ p[1] \notin last.hidden
       /\ Started(p[1], p[2])

\* C6 as stated: no edge (c1, c2) is recorded when either side requires
\* visibility and either entity is hidden; in particular none for a hidden c2
\* that requires visibility, whatever c1's setting.
C6_EitherSideRequiresVisible ==
  lastOp = "tick" =>
    \A p \in Pairs :
      hasCollided(p[1], p[2], maps[collisions]) =>
        ~((NeedsVisible(p[1]) \/ NeedsVisible(p[2])) /\ (Hidden(p[1]) \/ Hidden(p[2])))

\* C6 as amended: no edge (c1, c2) is recorded when c1 requires visibility and
\* either entity is hidden; the setting of c2 is not consulted.
C6_FirstSideRequiresVisible ==
  lastOp = "tick" =>
    \A p \in Pairs :
      hasCollided(p[1], p[2], maps[collisions]) =>
        ~(NeedsVisible(p[1]) /\ (Hidden(p[1]) \/ Hidden(p[2])))

C6_Witness ==
  /\ lastOp = "tick"
  /\ \E p \in Pairs :
       /\ hasCollided(p[1], p[2], maps[collisions])
       /\ ~NeedsVisible(p[1])
       /\ NeedsVisible(p[2])
       /\ Hidden(p[2])

\* The pairs the tick evaluates that have no narrow-phase test.
Unsupported(c1, c2) ==
  Visited(c1, c2) /\ ~Skipped(c1, c2) /\ ~HasShapeTest(data[c1].shape, data[c2].shape)

\* C7: the tick raises the invalid-shape error exactly when it evaluates an
\* eligible pair without a narrow-phase test (a skipped pair never raises it);
\* it aborts at that pair, so the graph holds only edges of pairs visited
\* before it, and no event of that tick is emitted.
C7_InvalidShapeAbortsTick ==
  lastOp = "tick" =>
    /\ err = InvalidShape <=> \E p \in Pairs : Unsupported(p[1], p[2])
    /\ err = InvalidShape =>
         /\ events = <<>>
         /\ ~last.ok
         /\ \E k \in 1..Len(Candidates) :
              /\ Unsupported(Candidates[k][1], Candidates[k][2])
              /\ Range(maps[collisions]) \subseteq {Candidates[j] : j \in 1..(k - 1)}

C7_Witness ==
  /\ lastOp = "tick"
  /\ err = InvalidShape
  /\ \E p \in Pairs :
       /\ Visited(p[1], p[2])
       /\ Skipped(p[1], p[2])
       /\ ~HasShapeTest(data[p[1]].shape, data[p[2]].shape)

\* C8: a tick that evaluates no unsupported shape pair runs to completion,
\* whatever happened between the ticks.
C8_TickCompletes ==
  lastOp = "tick" => (last.ok \/ \E p \in Pairs : Unsupported(p[1], p[2]))

-----------------------------------------------------------------------------
InBucket(c, layer) == c \in Range(Bucket(layers, layer))

\* C9: removeCollider(c, layer) for a collider that is not in the layer's
\* bucket, or for a layer that never had a bucket, raises no error and leaves
\* every bucket and the flat set unchanged.
C9_RemoveAbsentIsNoOp ==
  [][\A c \in Colliders, layer \in LayerTags :
       (RemoveColliderCall(c, layer) /\ ~InBucket(c, layer))
         => (err' = NoError /\ colliders' = colliders /\ layers' = layers)]_vars

\* C10: after any sequence of addCollider and removeCollider calls a collider
\* is in exactly the buckets it was added to and not since removed from, and
\* in the flat set if and only if it is in at least one bucket.
C10_BucketsAndFlatSet ==
  /\ \A c \in Colliders, layer \in LayerTags : InBucket(c, layer) <=> <<c, layer>> \in added
  /\ \A c \in Colliders :
       c \in Range(colliders) <=> \E layer \in LayerTags : InBucket(c, layer)

-----------------------------------------------------------------------------
Registered(c) == c \in Range(colliders) /\ InBucket(c, data[c].layer)
RegisteredNowhere(c) ==
  c \notin Range(colliders) /\ \A layer \in LayerTags : ~InBucket(c, layer)

\* The most recent of play/pause was play: el.isPlaying; the most recent of
\* pool-remove/pool-return was pool-remove: the entity is in use.
ShouldBeRegistered(c) ==
  CASE data[c].policy = "init" -> TRUE
    [] data[c].policy = "play" -> elPlaying[c]
    [] data[c].policy = "pool" -> pool[c] = "used"

-----------------------------------------------------------------------------
InSomeBucket(c) == c \in Range(colliders) \/ \E layer \in LayerTags : InBucket(c, layer)
InOwnBucketOnly(c) == \A layer \in LayerTags : InBucket(c, layer) <=> layer = data[c].layer

\* C12: whatever layer updates, policy updates and lifecycle events happen, a
\* registered collider is in exactly one bucket, that of its current layer
\* tag; and a layer change made while the collider is inactive (policy not
\* 'init', not activated) changes no bucket.
C12_OneBucketCurrentLayer ==
  [][/\ \A c \in Colliders :
          (comp'[c] = "live" /\ InSomeBucket(c)') => InOwnBucketOnly(c)'
     /\ \A c \in Colliders : \A d \in Changes(data[c]) :
          (UpdateData(c, d) /\ d.layer # data[c].layer
             /\ ~activated[c] /\ d.policy # "init") => layers' = layers]_vars

-----------------------------------------------------------------------------
\* A layer of c1's collidesWith list has no bucket.
DeclaresEmptyLayer(c1) ==
  \E i \in 1..Len(data[c1].collidesWith) : data[c1].collidesWith[i] \notin DOMAIN layers

\* C13: every edge (c1, c2) of the graph a tick builds has c1 in the flat set,
\* c2 in the bucket of a layer that c1 lists in collidesWith, and c2 other than
\* c1; a listed layer without a bucket is skipped without error (a tick over
\* live components and supported shapes raises none).
C13_EdgesFollowDeclaredLayers ==
  lastOp = "tick" =>
    /\ \A e \in Range(maps[collisions]) : e[1] # e[2] /\ Visited(e[1], e[2])
    /\ ((\E c1 \in Range(colliders) : DeclaresEmptyLayer(c1))
          /\ (\A c \in Colliders : comp[c] = "live")
          /\ ~\E p \in Pairs : Unsupported(p[1], p[2]))
         => err = NoError

C13_Witness ==
  /\ lastOp = "tick"
  /\ err = NoError
  /\ \E e \in Range(maps[collisions]) : DeclaresEmptyLayer(e[1])

-----------------------------------------------------------------------------
\* The transitions the diff passes of the last tick detect: the edges of the
\* new graph that the previous one lacks, and the reverse.
StartsDue ==
  {p \in Pairs : hasCollided(p[1], p[2], maps[collisions])
                   /\ ~hasCollided(p[1], p[2], maps[prevCollisions])}
EndsDue ==
  {p \in Pairs : hasCollided(p[1], p[2], maps[prevCollisions])
                   /\ ~hasCollided(p[1], p[2], maps[collisions])}

\* The event of edge (c1, c2) as c1's configuration addresses it.
Expected(name, c1, c2) ==
  IF data[c1].eventTarget # NoTarget
  THEN Event(name, data[c1].eventTarget, FALSE, c1, c2, data[c1].layer, data[c2].layer)
  ELSE Event(name, c1, TRUE, NoEl, c2, NoLayer, NoLayer)

Count(e) == Cardinality({i \in 1..Len(events) : events[i] = e})

\* C14: when the diff passes of a tick run, each transition they detect for an
\* edge (c1, c2) is emitted exactly once and as c1's configuration says (on
\* c1's target, not bubbling, with both entities and both layers; or on c1's
\* entity, bubbling, with c2's entity); nothing else is emitted.
C14_EachTransitionEmittedOnce ==
  (lastOp = "tick" /\ err # InvalidShape) =>
    /\ \A p \in StartsDue : Count(Expected("collisionstart", p[1], p[2])) = 1
    /\ \A p \in EndsDue : Count(Expected("collisionend", p[1], p[2])) = 1
    /\ \A i \in 1..Len(events) :
         events[i] \in {Expected("collisionstart", p[1], p[2]) : p \in StartsDue}
                         \cup {Expected("collisionend", p[1], p[2]) : p \in EndsDue}

-----------------------------------------------------------------------------
\* The least natural number whose square is at least n: for whole numbers d
\* and r, sqrt(n) <= r exactly when CeilSqrt(n) <= r.
CeilSqrt(n) == CHOOSE k \in 0..n : k * k >= n /\ \A j \in 0..(k - 1) : j * j < n

Distance(c1, c2) == CeilSqrt(DistSq(pos[c1], pos[c2]))
BothAre(c1, c2, shape1, shape2) == data[c1].shape = shape1 /\ data[c2].shape = shape2

\* C15: for two spheres the tick records the edge, and the sphere/sphere test
\* is true, exactly when the distance of the world positions is at most the
\* sum of the scaled radii; a distance equal to the sum is an overlap.
C15_SphereSphereInclusive ==
  lastOp = "tick" =>
    \A p \in Pairs :
      BothAre(p[1], p[2], "sphere", "sphere") =>
        LET near == Distance(p[1], p[2]) <= GetScaledRadius(p[1]) + GetScaledRadius(p[2])
        IN  /\ hasCollided(p[1], p[2], maps[collisions]) <=> near
            /\ collision_sphere_sphere(p[1], p[2]) <=> near

C15_Witness ==
  /\ lastOp = "tick"
  /\ BothAre("A", "B", "sphere", "sphere")
  /\ DistSq(pos["A"], pos["B"]) = Sq(GetScaledRadius("A") + GetScaledRadius("B"))
  /\ hasCollided("A", "B", maps[collisions])

\* C16: for a fixed world the dispatch is symmetric: two boxes give the same
\* result in either order, and the box/sphere entry gives the result of the
\* sphere/box entry for the same sphere and box.
C16_DispatchSymmetric ==
  lastOp = "tick" =>
    \A p \in Pairs :
      /\ BothAre(p[1], p[2], "box", "box") =>
           /\ collision_box_box(p[1], p[2]) <=> collision_box_box(p[2], p[1])
           /\ hasCollided(p[1], p[2], maps[collisions])
                <=> hasCollided(p[2], p[1], maps[collisions])
      /\ BothAre(p[1], p[2], "box", "sphere") =>
           /\ collision_box_sphere(p[1], p[2]) <=> collision_sphere_box(p[2], p[1])
           /\ hasCollided(p[1], p[2], maps[collisions])
                <=> hasCollided(p[2], p[1], maps[collisions])

C16_Witness ==
  /\ lastOp = "tick"
  /\ BothAre("A", "B", "box", "sphere")
  /\ data["A"].radius # data["B"].radius
  /\ hasCollided("A", "B", maps[collisions])
  /\ hasCollided("B", "A", maps[collisions])

-----------------------------------------------------------------------------
(* Misconfiguration and repair: two registered colliders whose shape is    *)
(* set and set again between ticks, an unsupported shape included.         *)

\* setAttribute of the shape: the host sets data and calls update(oldData),
\* which sees the same layer.
Reshape(c, shape) ==
  /\ comp[c] = "live"
  /\ shape # data[c].shape
  /\ Change
  /\ data' = [data EXCEPT ![c].shape = shape]
  /\ Apply(c, update(c, Now, [data[c] EXCEPT !.shape = shape], activated[c], data[c].layer))
  /\ UNCHANGED <<comp, world>>

InitRepair ==
  /\ comp = [c \in Colliders |-> "live"]
  /\ data \in [Colliders -> {[DefaultData EXCEPT !.shape = sh] : sh \in Shapes}]
  /\ activated = [c \in Colliders |-> FALSE]
  /\ elPlaying = [c \in Colliders |-> TRUE]
  /\ visible = [n \in Nodes |-> TRUE]
  /\ pos = [c \in Colliders |-> IF c = "A" THEN Origin ELSE Touching]
  /\ scale = [c \in Colliders |-> UnitScale]
  /\ pool = [c \in Colliders |-> "none"]
  /\ colliders = <<"A", "B">>
  /\ layers = [l \in {"L1"} |-> <<"A", "B">>]
  /\ maps = [m \in MapIds |-> <<>>]
  /\ collisions = "m1"
  /\ prevCollisions = "m2"
  /\ newCollisions = "m3"
  /\ events = <<>>
  /\ err = NoError
  /\ lastOp = "create"
  /\ nChanges = 0
  /\ last = NoTick
  /\ prev = NoTick
  /\ added = {}
  /\ ElsewhereInit

NextRepair ==
  \/ Tick
  \/ \E c \in Colliders, shape \in Shapes : Reshape(c, shape)
  \/ \E p \in Places : Move(p)
  \/ Renew

SpecRepair == InitRepair /\ [][NextRepair]_vars

\* C17: a tick run again on the same world and registry builds the same graph
\* and emits nothing; and whatever ticks were aborted by an unsupported shape,
\* the ticks emit exactly the transitions of each pair's overlap state: a
\* collisionstart only for an edge with no collisionstart pending its
\* collisionend, a collisionend only for an edge with one, and after a tick
\* that completes the edges with a pending collisionstart are the overlapping
\* ones.
C17_TickIdempotentNoRollback ==
  [][Tick =>
       /\ lastOp = "tick" =>
            /\ events' = <<>>
            /\ Range(maps'[collisions']) = Range(maps[collisions])
       /\ \A p \in Pairs :
            /\ p \in EdgesEmitted(events', "collisionstart") => p \notin last.open
            /\ p \in EdgesEmitted(events', "collisionend") => p \in last.open
       /\ last'.ok => last'.open = last'.eff]_vars

-----------------------------------------------------------------------------
\* C18: what a lifecycle event did to the registry between two ticks is in
\* effect at the next tick: a collider that is registered nowhere is in no edge
\* of the graph the tick builds, as c1 or as c2, and every edge it had on the
\* previous tick gets its collisionend on this tick; and every eligible,
\* overlapping pair of registered colliders is tested and recorded by the tick
\* (but for a suppressed duplicate).
C18_RegistryChangesTakeEffect ==
  lastOp = "tick" =>
    /\ \A c \in Colliders :
         (comp[c] = "live" /\ RegisteredNowhere(c)) =>
           /\ ~InEdge(c, maps[collisions])
           /\ \A p \in Pairs :
                (c \in {p[1], p[2]} /\ hasCollided(p[1], p[2], maps[prevCollisions]))
                  => Ended(p[1], p[2])
    /\ err # InvalidShape =>
         \A p \in Pairs :
           Overlapping(p[1], p[2]) =>
             \/ hasCollided(p[1], p[2], maps[collisions])
             \/ (data[p[1]].ignoreDuplicates /\ hasCollided(p[2], p[1], maps[collisions]))

-----------------------------------------------------------------------------
(* The states component on its own: the application calls the sync          *)
(* operations, or hands an operation to a threadlet that runs it later.    *)

StateArgs == StateNames \cup {NoState}
Ops == {"chain", "call", "return"}
\* The <<fromCtxt, toCtxt>> arguments the application passes.
CtxtPairs == {<<NoCtxt, NoCtxt>>, <<"action", "values">>, <<"values", "action">>}
Fresh(states) == [states EXCEPT !.events = <<>>, !.err = NoError]
Calls(queue) == Cardinality({i \in 1..Len(queue) : queue[i].op = "call"})

\* syncChain / syncCall / syncReturn
SyncOp(op, state, fromCtxt, toCtxt) ==
  /\ op = "call" => Len(statesComp.callStack) + Calls(threadlets) < MaxStack
  /\ statesComp' = Operate(Fresh(statesComp), op, state, fromCtxt, toCtxt)
  /\ asked' = Asked(statesComp, op, state, fromCtxt, toCtxt)
  /\ lastOp' = "sync"
  /\ UNCHANGED <<comp, data, activated, world, registry, graphs, events, err,
                 nChanges, history, threadlets, pooling>>

\* chain / call / return: Threadlet.DefaultPriority.run(...)
AsyncOp(op, state, fromCtxt, toCtxt) ==
  /\ Len(threadlets) < MaxThreadlets
  /\ op = "call" => Len(statesComp.callStack) + Calls(threadlets) < MaxStack
  /\ threadlets' = Append(threadlets, [op |-> op, state |-> state,
                                       fromCtxt |-> fromCtxt, toCtxt |-> toCtxt])
  /\ lastOp' = "queued"
  /\ UNCHANGED <<comp, data, activated, world, registry, graphs, events, err,
                 nChanges, history, statesComp, asked, pooling>>

\* The threadlet runs the operation it was handed.
RunThreadlet ==
  /\ threadlets # <<>>
  /\ LET t == Head(threadlets)
     IN  /\ statesComp' = Operate(Fresh(statesComp), t.op, t.state, t.fromCtxt, t.toCtxt)
         /\ asked' = Asked(statesComp, t.op, t.state, t.fromCtxt, t.toCtxt)
  /\ threadlets' = Tail(threadlets)
  /\ lastOp' = "threadlet"
  /\ UNCHANGED <<comp, data, activated, world, registry, graphs, events, err,
                 nChanges, history, pooling>>

NextStates ==
  \/ \E op \in Ops, state \in StateArgs, ctxts \in CtxtPairs :
       SyncOp(op, state, ctxts[1], ctxts[2])
  \/ \E op \in Ops, state \in StateArgs, ctxts \in CtxtPairs :
       AsyncOp(op, state, ctxts[1], ctxts[2])
  \/ RunThreadlet

SpecStates == Init /\ [][NextStates]_vars

\* What the change event of a transition from state before to state target
\* must be.
ChangeEvent(op, before, target, fromCtxt, toCtxt) ==
  [name |-> "statechanged", on |-> StatesEl, bubbles |-> FALSE, op |-> op,
   from |-> [state |-> IF before = NoState THEN NoStateName ELSE before,
             action |-> IF fromCtxt = "action" THEN UserAction ELSE "exit"],
   to |-> [state |-> target,
           action |-> IF toCtxt = "action" THEN UserAction ELSE "enter"],
   seen |-> target]

\* The state the operation asked last goes to: the one named, or for a return
\* without a name the one that was on top of the call stack.
TargetState ==
  IF asked.op = "return" /\ asked.state = NoState
  THEN asked.stack[Len(asked.stack)]
  ELSE asked.state

\* C19: every successful transition, sync or run by a threadlet, emits exactly
\* one change event on the states element, not bubbling, with the operation as
\* op, the state current before the operation ('<nos>' when none) as
\* from.state with default action 'exit', the target state as to.state with
\* default action 'enter', and currentState already the target when the
\* handlers run; an operation that fails emits nothing.
C19_OneChangeEventPerTransition ==
  lastOp \in {"sync", "threadlet"} =>
    IF statesComp.err = NoError
    THEN /\ statesComp.events =
              <<ChangeEvent(asked.op, asked.before, TargetState, asked.fromCtxt, asked.toCtxt)>>
         /\ statesComp.currentState = TargetState
    ELSE /\ statesComp.events = <<>>
         /\ statesComp.currentState = asked.before

C19_Witness ==
  /\ lastOp = "threadlet"
  /\ statesComp.err = NoError
  /\ Len(statesComp.events) = 1
  /\ statesComp.events[1].op = "return"
  /\ asked.state = NoState
  /\ statesComp.events[1].from.state # NoStateName
  /\ statesComp.events[1].to.state # statesComp.events[1].from.state

-----------------------------------------------------------------------------
(* The mipool component on its own: the application sets its properties,   *)
(* requests and returns entities, and created entities finish loading.     *)

PoolOnly ==
  UNCHANGED <<comp, data, activated, world, registry, graphs, events, err,
              nChanges, history, statesComp, threadlets, asked, misound>>

\* The data the host can give next: any at initialisation, then setAttribute
\* changes one property at a time.
PoolChanges(old) ==
  IF old = NoData THEN PoolData
  ELSE {[old EXCEPT !.mixin = v] : v \in Mixins}
         \cup {[old EXCEPT !.size = v] : v \in PoolSizes}
         \cup {[old EXCEPT !.maxSize = v] : v \in PoolMaxSizes}
         \cup {[old EXCEPT !.threshold = v] : v \in Thresholds}
         \cup {[old EXCEPT !.poolPolicy = v] : v \in PoolPolicies}

\* The host initialises the component or setAttribute changes it: update(oldData).
PoolUpdate(d) ==
  /\ d # mipool.data
  /\ mipool.updates < MaxUpdates
  /\ mipoolUpdate(mipool, d).created <= MaxEntities
  /\ mipool' = mipoolUpdate(mipool, d)
  /\ lastOp' = "update"
  /\ UNCHANGED requested
  /\ PoolOnly

\* A created entity has loaded, in any order.
PoolLoaded(el) ==
  /\ mipool.data # NoData
  /\ el \in mipool.loading
  /\ mipool' = listener(mipool, el)
  /\ lastOp' = "loaded"
  /\ UNCHANGED requested
  /\ PoolOnly

PoolRequest ==
  /\ mipool.data # NoData
  /\ requestEntity(mipool).created <= MaxEntities
  /\ mipool' = requestEntity(mipool)
  /\ requested' = Requested(mipool, Undefined)
  /\ lastOp' = "request"
  /\ PoolOnly

\* returnEntity(el) for any entity the pool made, returned already or not, or
\* one that was never pooled.
PoolReturn(el) ==
  /\ mipool.data # NoData
  /\ el \in (1..mipool.created) \ mipool.loading \/ el = Stranger
  /\ mipool' = returnEntity(mipool, el)
  /\ requested' = Requested(mipool, el)
  /\ lastOp' = "returned"
  /\ PoolOnly

NextPool ==
  \/ \E d \in PoolChanges(mipool.data) : PoolUpdate(d)
  \/ \E el \in PoolEls : PoolLoaded(el)
  \/ PoolRequest
  \/ \E el \in PoolEls \cup {Stranger} : PoolReturn(el)

SpecPool == Init /\ [][NextPool]_vars

\* C20: the configured threshold is the expansion threshold in unused
\* entities: with threshold set to T > 0, a requestEntity made while at most T
\* entities are available and the pool size is below maxSize creates a new
\* pool entity.
C20_ThresholdExpandsPool ==
  (/\ lastOp = "request"
   /\ requested.threshold > 0
   /\ requested.availableEls <= requested.threshold
   /\ requested.size < requested.maxSize
   /\ requested.size < requested.stateMaxSize)
    => mipool.created = requested.created + 1

-----------------------------------------------------------------------------
(* The diff passes of the tick.                                            *)

\* An edge counts as present in a graph if either directed form is there.
Present(e, list) == hasCollided(e[1], e[2], list) \/ hasCollided(e[2], e[1], list)

\* C21: the diff passes test edge presence in both directions: a collisionstart
\* is emitted for an edge of the current graph only if neither directed form
\* is in the previous graph, and a collisionend for an edge of the previous
\* graph only if neither directed form is in the current graph.
C21_DiffTestsBothDirections ==
  lastOp = "tick" =>
    \A i \in 1..Len(events) :
      /\ events[i].name = "collisionstart" =>
           ~Present(EventEdge(events[i]), maps[prevCollisions])
      /\ events[i].name = "collisionend" =>
           ~Present(EventEdge(events[i]), maps[collisions])


\* C22: ping-pong buffers: every tick swaps the two graph buffers, so that for
\* its diff passes the previous graph is exactly the current graph as the
\* preceding tick left it, the current graph holds only edges recorded during
\* this tick, and the two buffers are two distinct containers.
C22_PingPongBuffers ==
  [][lastOp' = "tick" =>
       /\ prevCollisions' = collisions
       /\ collisions' = prevCollisions
       /\ maps'[prevCollisions'] = maps[collisions]
       /\ Range(maps'[collisions']) \subseteq last'.eff
       /\ collisions' # prevCollisions']_vars

\* A tick whose previous graph and current graph both hold edges and differ.
C22_Witness ==
  /\ lastOp = "tick"
  /\ maps[prevCollisions] # <<>>
  /\ maps[collisions] # <<>>
  /\ Range(maps[collisions]) # Range(maps[prevCollisions])


\* The events of the last tick that are about the ordered pair e.
EventsAbout(e) == {i \in 1..Len(events) : EventEdge(events[i]) = e}

\* C23: over a run of completed ticks the events emitted for an ordered pair
\* alternate collisionstart, collisionend, collisionstart, ..., beginning with
\* collisionstart: a tick emits at most one event for the pair, a
\* collisionstart only when every earlier one has been matched, a collisionend
\* only when a collisionstart is unmatched.
C23_StartEndAlternate ==
  (lastOp = "tick" /\ last.clean) =>
    \A e \in Colliders \X Colliders :
      /\ Cardinality(EventsAbout(e)) <= 1
      /\ \A i \in EventsAbout(e) :
           /\ events[i].name = "collisionstart" => e \notin prev.open
           /\ events[i].name = "collisionend" => e \in prev.open

\* A completed tick that ends the open collision of one ordered pair and starts
\* the collision of another.
C23_Witness ==
  /\ lastOp = "tick"
  /\ last.clean
  /\ \E i \in 1..Len(events) :
       /\ events[i].name = "collisionstart"
       /\ \E j \in 1..Len(events) :
            /\ events[j].name = "collisionend"
            /\ EventEdge(events[j]) # EventEdge(events[i])
            /\ EventEdge(events[j]) \in prev.open


\* C24: a states operation that fails has no effect: a syncChain, syncCall or
\* syncReturn whose target state is not in the list, and a syncReturn on an
\* empty call stack, raise an error, emit no event, and leave currentState and
\* the call stack as they were before the operation.
C24_FailedOperationNoEffect ==
  (/\ lastOp = "sync"
   /\ \/ asked.op = "return" /\ asked.stack = <<>>
      \/ TargetState \notin Range(statesComp.list))
    => /\ statesComp.err # NoError
       /\ statesComp.events = <<>>
       /\ statesComp.currentState = asked.before
       /\ statesComp.callStack = asked.stack


\* The call stack without its top entry.
Popped(stack) == SubSeq(stack, 1, Len(stack) - 1)

\* C25: call and return are a stack discipline: a successful call pushes the
\* state that was current, a successful return pops the top entry and, given
\* no state argument, makes it the current state again (so nested calls unwind
\* last in, first out), chain never changes the stack, and after any sequence
\* of successful operations the depth of the call stack is the number of calls
\* less the number of returns.
C25_CallReturnStackDiscipline ==
  (lastOp \in {"sync", "threadlet"} /\ statesComp.err = NoError) =>
    /\ asked.op = "call" =>
         statesComp.callStack = Append(asked.stack, asked.before)
    /\ asked.op = "return" =>
         /\ statesComp.callStack = Popped(asked.stack)
         /\ asked.state = NoState =>
              statesComp.currentState = asked.stack[Len(asked.stack)]
    /\ asked.op = "chain" => statesComp.callStack = asked.stack
    /\ asked.sound => Len(statesComp.callStack) = asked.net

\* The second of two nested calls has been unwound: a return without a state
\* argument leaves one entry on the stack, after successful operations only.
C25_Witness ==
  /\ lastOp = "sync"
  /\ statesComp.err = NoError
  /\ asked.sound
  /\ asked.op = "return"
  /\ asked.state = NoState
  /\ Len(asked.stack) = 2
  /\ statesComp.currentState = asked.stack[2]
  /\ statesComp.currentState # asked.before


\* How often el appears in the list els.
Occurrences(els, el) == Cardinality({i \in 1..Len(els) : els[i] = el})

\* The entities of the pool that have loaded.
LoadedEls == (1..mipool.created) \ mipool.loading

\* C26: after any sequence of requestEntity and returnEntity calls on a pool,
\* returning an entity twice or returning one never pooled included, every
\* loaded pool entity is in exactly one of availableEls and usedEls, once;
\* requestEntity returns only an entity that was available and moves it to
\* usedEls; returnEntity of an entity not in usedEls changes neither list and
\* emits no pool-return.
C26_EntityInExactlyOneList ==
  /\ mipool.pools = 1 =>
       \A el \in LoadedEls :
         Occurrences(mipool.availableEls, el) + Occurrences(mipool.usedEls, el) = 1
  /\ (lastOp = "request" /\ mipool.result # Undefined) =>
       /\ mipool.result \in Range(requested.available)
       /\ mipool.result \notin Range(mipool.availableEls)
       /\ mipool.usedEls = Append(requested.used, mipool.result)
  /\ (lastOp = "returned" /\ requested.el \notin Range(requested.used)) =>
       /\ mipool.availableEls = requested.available
       /\ mipool.usedEls = requested.used
       /\ mipool.events = <<>>

\* An entity that is available already is returned while another is in use.
C26_Witness ==
  /\ lastOp = "returned"
  /\ mipool.pools = 1
  /\ requested.el # Stranger
  /\ requested.el \in Range(requested.available)
  /\ mipool.usedEls # <<>>


\* C27: with a pool policy other than 'dynamic', the entities created for the
\* pool never outnumber the effective maxSize, however the requestEntity calls
\* interleave with the 'loaded' callbacks that add a created entity to
\* availableEls and increment the size.  (Stated for a pool as initialised,
\* before any setAttribute.)
C27_CreatedWithinMaxSize ==
  (/\ mipool.updates = 1
   /\ mipool.data.poolPolicy # "dynamic")
    => mipool.created <= mipool.state.maxSize


-----------------------------------------------------------------------------
(* The misound component on its own: it is initialised with a src, the src *)
(* loads, the application plays, pauses, resumes and stops the sound, and  *)
(* playing instances end and waiting replays start.                        *)

SoundOnly ==
  UNCHANGED <<comp, data, activated, world, registry, graphs, events, err,
              nChanges, history, statesComp, threadlets, asked, mipool, requested>>

\* The host initialises the component: init() and update({}).
SoundUpdate(d) ==
  /\ misound.data = NoSoundData
  /\ misound' = soundUpdate(Calling(misound), d)
  /\ lastOp' = "sound"
  /\ SoundOnly

SoundLoaded ==
  /\ misound.loading
  /\ misound' = soundLoaded(Calling(misound))
  /\ lastOp' = "soundloaded"
  /\ SoundOnly

PlaySound ==
  /\ misound.data # NoSoundData
  /\ misound.nPlaying < MaxPlaying
  /\ misound' = playSound(Calling(misound))
  /\ lastOp' = "playSound"
  /\ SoundOnly

\* A playing instance reaches its end: its source calls onEnded.
AudioEnded(i) ==
  /\ i \in 1..Len(misound.pool)
  /\ misound.pool[i].isPlaying
  /\ misound.pool[i].repeat > 1 => misound.pool[i].waiting < MaxWaiting
  /\ misound' = fOnEnded(Calling(misound), i)
  /\ lastOp' = "ended"
  /\ SoundOnly

\* The waiter of a repeat runs out: audio.play().
Replay(i) ==
  /\ i \in 1..Len(misound.pool)
  /\ misound.pool[i].waiting > 0
  /\ misound' = [Calling(misound) EXCEPT
                   !.pool[i] = [AudioPlay(@) EXCEPT !.waiting = @ - 1]]
  /\ lastOp' = "replay"
  /\ SoundOnly

StopSound ==
  /\ misound.data # NoSoundData
  /\ misound' = [stopSound(Calling(misound)) EXCEPT !.plain = FALSE]
  /\ lastOp' = "stopSound"
  /\ SoundOnly

PauseSound ==
  /\ misound.data # NoSoundData
  /\ misound' = [pauseSound(Calling(misound)) EXCEPT !.plain = FALSE]
  /\ lastOp' = "pauseSound"
  /\ SoundOnly

ResumeSound ==
  /\ misound.data # NoSoundData
  /\ misound' = [resumeSound(Calling(misound)) EXCEPT !.plain = FALSE]
  /\ lastOp' = "resumeSound"
  /\ SoundOnly

NextSound ==
  \/ \E d \in SoundData : SoundUpdate(d)
  \/ SoundLoaded
  \/ PlaySound
  \/ \E i \in 1..MaxSounds : AudioEnded(i)
  \/ \E i \in 1..MaxSounds : Replay(i)
  \/ StopSound
  \/ PauseSound
  \/ ResumeSound

SpecSound == Init /\ [][NextSound]_vars


\* An instance that still has sound to play: it is playing, or a replay of it
\* is waiting.
StillPlaying(a) == a.isPlaying \/ a.waiting > 0

SoundEnded(reason) == SoundEvent("sound-ended", reason)

\* C28: for any sequence of playSound calls and audio end callbacks, the end
\* callback of an instance emits 'sound-ended' with reason 'end' exactly when
\* it was the last instance still playing, never while another instance is
\* still playing, and isPlaying is false afterwards.
C28_EndedWhenLastSoundEnds ==
  (lastOp = "ended" /\ misound.plain) =>
    /\ SoundEnded("end") \in Range(misound.events)
         <=> \A i \in 1..Len(misound.pool) : ~StillPlaying(misound.pool[i])
    /\ SoundEnded("end") \in Range(misound.events) =>
         /\ misound.events = <<SoundEnded("end")>>
         /\ ~misound.isPlaying
         /\ misound.nPlaying = 0


\* C29: stopSound stops all the sounds of the pool: after it returns, whatever
\* the pool size and whichever instances were ever played, no instance is
\* playing, isPlaying and isPaused are false, nPlaying is 0, and if nPlaying
\* was greater than 0 beforehand exactly one 'sound-ended' event with reason
\* 'stop' was emitted.
C29_StopSoundStopsAll ==
  lastOp = "stopSound" =>
    /\ \A i \in 1..Len(misound.pool) : ~misound.pool[i].isPlaying
    /\ ~misound.isPlaying
    /\ ~misound.isPaused
    /\ misound.nPlaying = 0
    /\ misound.before > 0 => misound.events = <<SoundEnded("stop")>>

=============================================================================
